---- MODULE Spec2Model ----
(***************************************************************************)
(* Orchestration core of the Azure agent: the handler factory              *)
(* (DAPEAgent/utils/azure_adapters.py), the auth token cache               *)
(* (azure_tools/auth.py), the context store (DAPEAgent/config.py,          *)
(* DAPEAgent/azure/shared_tools.py) and the guardrail gate                 *)
(* (DAPEAgent/triage_agent.py).                                            *)
(***************************************************************************)
EXTENDS Integers, Sequences, FiniteSets, TLC

VARIABLES
    \* ---- handler factory ----
    cache,          \* _resource_handler_cache: cache key -> handler id
    constructed,    \* number of handler objects constructed so far
    keyInUse,       \* the registered key the calls of this run use
    last,           \* the most recent completed get_resource_handler call
    thr,            \* per caller thread: position inside get_resource_handler
    \* ---- auth token cache ----
    token,          \* AzureAuthentication.token: <<>> for None, else <<token id>>
    token_expiry,   \* AzureAuthentication.token_expiry: <<>> for None, else <<minute>>
    clock,          \* the wall clock, in minutes of Unix time
    issued,         \* history: issued[i] is the expires_on reported with token i
    acquisitions,   \* history: calls made to credential.get_token
    lastGet,        \* history: the most recent get_token call
    callers,        \* per caller thread: position inside get_token
    \* ---- context store and guardrail gate ----
    azure_ctx,      \* the AzureCtx of the conversation: its string fields
    ctx_auth,       \* the AzureCtx's auth field: 0 for None, else the instance
    authMade,       \* AzureAuthentication objects created for this AzureCtx
    ensured,        \* history: the instances ensure_auth has returned
    built,          \* history: the field values the AzureCtx was constructed with
    firstWrite,     \* history: per field, the first non-empty argument set_azure_context got
    laterWrite,     \* history: per field, whether an argument was passed after that one
    request,        \* the request the guardrails are checking
    rgCheck,        \* resource_group_guardrail: position, verdict, verification calls
    resCheck,       \* resource_exists_guardrail: position, verdict, verification calls
    \* ---- agent tools ----
    lastTool,       \* the most recent completed tool call
    helpers,        \* helper objects the specialist tools have constructed themselves
    \* ---- MCP tool filter ----
    filterCall,     \* the most recent allow_tools call: its arguments and result
    filterPrev,     \* the allow_tools call before that one
    \* ---- run_triage_agent ----
    turn,           \* position inside run_triage_agent, and how the turn ended
    connections,    \* Azure MCP server connections currently open
    \* ---- GitHubAgent / ADOAgent ----
    agent,          \* self.agent: <<>> for None, else <<the mcp_server value the Agent was built with>>
    mcp_server,     \* self.mcp_server: 0 for None, else the server's number
    initialized,    \* self._initialized
    servers,        \* the MCPServerStdio objects created: each one's state
    task            \* per asyncio task: position inside the method it runs

factoryVars == <<cache, constructed, keyInUse, last, thr>>

authVars == <<token, token_expiry, clock, issued, acquisitions, lastGet, callers>>

storeVars == <<azure_ctx, ctx_auth, authMade, ensured, built, firstWrite, laterWrite>>

gateVars == <<request, rgCheck, resCheck>>

toolVars == <<lastTool, helpers>>

filterVars == <<filterCall, filterPrev>>

turnVars == <<turn, connections>>

agentVars == <<agent, mcp_server, initialized, servers, task>>

mcpVars == <<filterVars, turnVars, agentVars>>

vars == <<cache, constructed, keyInUse, last, thr,
          token, token_expiry, clock, issued, acquisitions, lastGet, callers,
          azure_ctx, ctx_auth, authMade, ensured, built, firstWrite, laterWrite,
          request, rgCheck, resCheck, lastTool, helpers,
          filterCall, filterPrev, turn, connections,
          agent, mcp_server, initialized, servers, task>>

(***************************************************************************)
(* Values                                                                  *)
(***************************************************************************)
None == "<None>"        \* Python None
Absent == "<absent>"    \* key not present in a dict

(***************************************************************************)
(* Bounds                                                                  *)
(***************************************************************************)
MaxHandlers == 2        \* handler constructions per run
MaxClock == 9           \* minutes the clock runs
MaxAcquisitions == 3    \* calls to the credential provider per run
MaxHelpers == 2         \* helpers the specialist tools construct per run
MaxTurns == 3           \* conversation turns per run
MaxServers == 3         \* MCPServerStdio objects one agent object creates per run
LocalOffset == 2        \* minutes local time is ahead of Unix time

(***************************************************************************)
(* Handler factory                                                         *)
(***************************************************************************)
Fields == {"subscription_id", "subscription_name", "resource_group_name",
           "resource_name", "pool_name"}

ResourceKey == {"adf.linked_services", "adf.triggers", "adf.pipelines",
                "adf.integration_runtime", "adf.managed_pe", "batch.pool",
                "keyvault", "locks", "subscription_resource"}

UnknownKey == "adf.datasets"

\* the values each field of an AzureCtx takes in the runs explored
FieldDomain(f) ==
    CASE f = "subscription_id"     -> {None, "sub-1"}
      [] f = "subscription_name"   -> {None}
      [] f = "resource_group_name" -> {None, "SQL-RG"}
      [] f = "resource_name"       -> {None, "adf-stanley"}
      [] f = "pool_name"           -> {None, "", "pool-1"}

\* the AzureCtx contents explored: a conversation fills the scope top-down
\* (subscription, then resource group, then resource); a pool is named inside
\* a subscription
AzureCtxValues == {c \in [Fields -> {None, "", "sub-1", "SQL-RG", "adf-stanley", "pool-1"}] :
                      /\ \A f \in Fields : c[f] \in FieldDomain(f)
                      /\ c["resource_group_name"] # None => c["subscription_id"] # None
                      /\ c["resource_name"] # None => c["resource_group_name"] # None
                      /\ c["pool_name"] # None => c["subscription_id"] # None
                      /\ c["pool_name"] = "" => c["resource_name"] # None}

\* the ctx arguments explored: AzureCtx dataclass instances
CtxArgs == {[repr |-> "AzureCtx", fields |-> c] : c \in AzureCtxValues}

EmptyDict == [f \in Fields |-> Absent]

KwargsArgs == {EmptyDict}

\* a dict over Fields is a function Fields -> value, Absent for a missing key
Keys(d) == {f \in Fields : d[f] # Absent}

Get(d, f, default) == IF d[f] # Absent THEN d[f] ELSE default

\* d.update(e)
Update(d, e) == [f \in Fields |-> IF e[f] # Absent THEN e[f] ELSE d[f]]

ExtractContextValues(ctx) ==
    IF ctx.repr = "AzureCtx"
    THEN [f \in Fields |-> IF ctx.fields[f] # None THEN ctx.fields[f] ELSE Absent]
    ELSE ctx.fields

\* position of a field name in the lexicographic order of the names
FieldRank(f) ==
    CASE f = "pool_name"           -> 1
      [] f = "resource_group_name" -> 2
      [] f = "resource_name"       -> 3
      [] f = "subscription_id"     -> 4
      [] f = "subscription_name"   -> 5

RECURSIVE SortedItemsOf(_, _)
SortedItemsOf(d, ks) ==
    IF ks = {} THEN <<>>
    ELSE LET k == CHOOSE x \in ks : \A y \in ks : FieldRank(x) <= FieldRank(y)
         IN  <<(<<k, d[k]>>)>> \o SortedItemsOf(d, ks \ {k})

\* tuple(sorted(context_values.items()))
SortedItems(d) == SortedItemsOf(d, Keys(d))

\* keyed on the field names alone: sorted(context_values) for sorted(context_values.items())
MakeCacheKey_NamesOnly(key, context_values) ==
    <<key, [i \in 1..Len(SortedItems(context_values)) |-> SortedItems(context_values)[i][1]]>>

MakeCacheKey(key, context_values) == <<key, SortedItems(context_values)>>

\* the dispatch with a helper constructed for any key
Dispatch_AnyKey(key, context_values) ==
    IF key = "batch.pool" /\ Get(context_values, "pool_name", None) \in {None, ""}
    THEN "missing_pool_name" ELSE "ok"

\* the dispatch with the pool_name test made for None only
Dispatch_PoolNotNone(key, context_values) ==
    IF key \notin ResourceKey THEN "unknown_key"
    ELSE IF key = "batch.pool" /\ Get(context_values, "pool_name", None) = None
    THEN "missing_pool_name" ELSE "ok"

\* the constructor branch of get_resource_handler: "ok" when a constructor is
\* called, otherwise the ValueError raised
Dispatch(key, context_values) ==
    CASE key \in {"adf.linked_services", "adf.triggers", "adf.pipelines",
                  "adf.integration_runtime", "adf.managed_pe"} -> "ok"
      [] key = "batch.pool" ->
            IF Get(context_values, "pool_name", None) \in {None, ""}
            THEN "missing_pool_name" ELSE "ok"
      [] key = "keyvault" -> "ok"
      [] key = "locks" -> "ok"
      [] key = "subscription_resource" -> "ok"
      [] OTHER -> "unknown_key"

\* the keyword arguments the constructor of the helper class receives
ConstructorArgs(key, context_values) ==
    CASE key = "locks" ->
            [f \in Fields |->
                IF f = "resource_group_name" THEN Get(context_values, f, "")
                ELSE IF f = "subscription_id" THEN Get(context_values, f, None)
                ELSE Absent]
      [] key = "subscription_resource" ->
            [f \in Fields |->
                IF f = "subscription_id" THEN Get(context_values, f, None)
                ELSE Absent]
      [] OTHER -> context_values

NoCall == [key |-> "-", ctx |-> EmptyDict, outcome |-> "none", handler |-> 0,
           error |-> "none", args |-> EmptyDict]

CallRecord(key, cv, outcome, h, err) ==
    [key |-> key, ctx |-> cv, outcome |-> outcome, handler |-> h,
     error |-> err, args |-> ConstructorArgs(key, cv)]

Idle == [pc |-> "idle", key |-> "-", ctx |-> EmptyDict, handler |-> 0]

Threads == {"t1", "t2"}

(***************************************************************************)
(* Context store (DAPEAgent/config.py, DAPEAgent/utils/azure_adapters.py)  *)
(***************************************************************************)
\* the fields of the AzureCtx that set_azure_context, switch_subscription
\* and the guardrails write
StoreFields == {"subscription_id", "subscription_name", "resource_group_name",
                "resource_name", "intent"}

\* the fields set_azure_context takes as arguments
SetFields == {"subscription_id", "resource_group_name", "resource_name", "intent"}

\* Python truth of an Optional[str]
Truthy(v) == v # None /\ v # ""

NoCheck == [pc |-> "idle", calls |-> 0, held |-> None, exists |-> TRUE,
            name |-> "-", tripwire |-> FALSE, path |-> "-"]

\* no request is being checked
GateFresh ==
    /\ request = "-"
    /\ rgCheck = NoCheck
    /\ resCheck = NoCheck

\* AzureCtx(): every field None, no AzureAuthentication attached
StoreFresh ==
    /\ azure_ctx = [f \in StoreFields |-> None]
    /\ ctx_auth = 0
    /\ authMade = 0
    /\ ensured = {}
    /\ built = azure_ctx
    /\ firstWrite = [f \in SetFields |-> None]
    /\ laterWrite = [f \in SetFields |-> FALSE]

\* a thread that is not inside get_token
NoCaller == [pc |-> "idle", response |-> <<>>, result |-> <<>>]

NoGet == [now |-> 0, held |-> <<>>, acquired |-> FALSE, result |-> <<>>, raised |-> FALSE]

\* a fresh AzureAuthentication (__init__)
AuthFresh ==
    /\ token = <<>>
    /\ token_expiry = <<>>
    /\ clock = 0
    /\ issued = <<>>
    /\ acquisitions = 0
    /\ lastGet = NoGet
    /\ callers = [t \in Threads |-> NoCaller]

\* an empty handler cache with no caller inside get_resource_handler
FactoryFresh ==
    /\ cache = <<>>
    /\ constructed = 0
    /\ last = NoCall
    /\ thr = [t \in Threads |-> Idle]

\* no tool has been called and no specialist has built a helper yet
NoTool ==
    [tool |-> "-", failure |-> "none", outcome |-> "none", handler |-> <<>>,
     ctx |-> [f \in {"subscription_id", "resource_group_name", "resource_name"} |-> "-"]]

ToolsFresh ==
    /\ lastTool = NoTool
    /\ helpers = 0

\* no allow_tools call made yet
NoFilterCall ==
    [variant |-> "-", ctx |-> "-", name |-> <<>>, result |-> FALSE, nameAfter |-> <<>>]

\* run_triage_agent has not been entered
NoTurn == [pc |-> "idle", entry |-> "-", outcome |-> "none", n |-> 0]

Tasks == {"a", "b"}

\* an asyncio task that runs no method of the agent object
NoTask == [pc |-> "idle", method |-> "-", server |-> 0, outcome |-> "none"]

McpFresh ==
    /\ filterCall = NoFilterCall
    /\ filterPrev = NoFilterCall
    /\ turn = NoTurn
    /\ connections = 0
    /\ agent = <<>>
    /\ mcp_server = 0
    /\ initialized = FALSE
    /\ servers = <<>>
    /\ task = [t \in Tasks |-> NoTask]

InitFactory ==
    /\ FactoryFresh
    /\ keyInUse \in ResourceKey
    /\ AuthFresh
    /\ StoreFresh
    /\ GateFresh
    /\ ToolsFresh
    /\ McpFresh

\* get_resource_handler constructing a helper on every call that reaches a
\* constructor, the cache holding the key or not
GetResourceHandler_NoLookup(key, ctx, kwargs) ==
    LET context_values == Update(ExtractContextValues(ctx), kwargs)
        cache_key == MakeCacheKey(key, context_values)
    IN  /\ \A t \in Threads : thr[t].pc = "idle"
        /\ IF Dispatch(key, context_values) # "ok"
           THEN /\ last' = CallRecord(key, context_values, "error", 0,
                                      Dispatch(key, context_values))
                /\ UNCHANGED <<cache, constructed>>
           ELSE \/ /\ last' = CallRecord(key, context_values, "error", 0, "constructor_raised")
                   /\ UNCHANGED <<cache, constructed>>
                \/ /\ constructed < MaxHandlers
                   /\ constructed' = constructed + 1
                   /\ cache' = [k \in DOMAIN cache \cup {cache_key} |->
                                   IF k = cache_key THEN constructed + 1 ELSE cache[k]]
                   /\ last' = CallRecord(key, context_values, "miss", constructed + 1, "none")
        /\ UNCHANGED <<keyInUse, thr, authVars, storeVars, gateVars>>

\* get_resource_handler reserving the cache entry before the constructor runs:
\* a constructor that raises leaves None (0) under the key
GetResourceHandler_ReserveFirst(key, ctx, kwargs) ==
    LET context_values == Update(ExtractContextValues(ctx), kwargs)
        cache_key == MakeCacheKey(key, context_values)
    IN  /\ \A t \in Threads : thr[t].pc = "idle"
        /\ IF cache_key \in DOMAIN cache
           THEN /\ last' = CallRecord(key, context_values, "hit", cache[cache_key], "none")
                /\ UNCHANGED <<cache, constructed>>
           ELSE IF Dispatch(key, context_values) # "ok"
           THEN /\ last' = CallRecord(key, context_values, "error", 0,
                                      Dispatch(key, context_values))
                /\ UNCHANGED <<cache, constructed>>
           ELSE \/ /\ last' = CallRecord(key, context_values, "error", 0, "constructor_raised")
                   /\ cache' = cache @@ (cache_key :> 0)
                   /\ UNCHANGED constructed
                \/ /\ constructed < MaxHandlers
                   /\ constructed' = constructed + 1
                   /\ cache' = cache @@ (cache_key :> constructed + 1)
                   /\ last' = CallRecord(key, context_values, "miss", constructed + 1, "none")
        /\ UNCHANGED <<keyInUse, thr, authVars, storeVars, gateVars>>

\* get_resource_handler run by one caller with nothing interleaved
GetResourceHandler(key, ctx, kwargs) ==
    LET context_values == Update(ExtractContextValues(ctx), kwargs)
        cache_key == MakeCacheKey(key, context_values)
    IN  /\ \A t \in Threads : thr[t].pc = "idle"
        /\ IF cache_key \in DOMAIN cache
           THEN /\ last' = CallRecord(key, context_values, "hit", cache[cache_key], "none")
                /\ UNCHANGED <<cache, constructed>>
           ELSE IF Dispatch(key, context_values) # "ok"
           THEN /\ last' = CallRecord(key, context_values, "error", 0,
                                      Dispatch(key, context_values))
                /\ UNCHANGED <<cache, constructed>>
           ELSE \/ \* the helper's constructor raises
                   /\ last' = CallRecord(key, context_values, "error", 0, "constructor_raised")
                   /\ UNCHANGED <<cache, constructed>>
                \/ \* the helper is constructed, cached and returned
                   /\ constructed < MaxHandlers
                   /\ constructed' = constructed + 1
                   /\ cache' = cache @@ (cache_key :> constructed + 1)
                   /\ last' = CallRecord(key, context_values, "miss", constructed + 1, "none")
        /\ UNCHANGED <<keyInUse, thr, authVars, storeVars, gateVars>>

NextFactory ==
    \E key \in {keyInUse, UnknownKey}, ctx \in CtxArgs, kwargs \in KwargsArgs :
        /\ GetResourceHandler(key, ctx, kwargs)
        /\ UNCHANGED <<toolVars, mcpVars>>

SpecFactory == InitFactory /\ [][NextFactory]_vars

(***************************************************************************)
(* Handler factory called with the context in its three representations:  *)
(* an AzureCtx, a plain dict, and a dict that also names fields with None. *)
(***************************************************************************)
\* the non-null field values the contexts explored carry
ReprContents == {c \in AzureCtxValues : c["subscription_id"] # None /\ c["pool_name"] = None}

\* the dicts that carry the non-null values of c: a field c leaves at None is
\* either missing from the dict or present with the value None
DictsOf(c) ==
    {d \in [Fields -> {None, Absent, "sub-1", "SQL-RG", "adf-stanley"}] :
        \A f \in Fields : IF c[f] # None THEN d[f] = c[f] ELSE d[f] \in {None, Absent}}

ReprArgs ==
    {[repr |-> "AzureCtx", fields |-> c] : c \in ReprContents}
    \cup UNION {{[repr |-> "dict", fields |-> d] : d \in DictsOf(c)} : c \in ReprContents}

\* the kinds the tool functions ask for with these contexts
InitFactoryRepr ==
    /\ InitFactory
    /\ keyInUse \in {"subscription_resource", "keyvault"}

NextFactoryRepr ==
    \E ctx \in ReprArgs :
        /\ GetResourceHandler(keyInUse, ctx, EmptyDict)
        /\ UNCHANGED <<toolVars, mcpVars>>

SpecFactoryRepr == InitFactoryRepr /\ [][NextFactoryRepr]_vars

(***************************************************************************)
(* Handler factory called from several threads.  The function holds no     *)
(* lock: a thread can be preempted between the cache lookup and the store. *)
(***************************************************************************)
\* the ctx arguments the concurrent callers pass
ThreadCtxArgs ==
    {c \in CtxArgs : \/ c.fields["pool_name"] = None
                     \/ (c.fields["pool_name"] = "pool-1" /\ c.fields["resource_group_name"] = None)}

\* lines 102-111: build the key and look it up
Lookup(t, key, ctx, kwargs) ==
    LET context_values == Update(ExtractContextValues(ctx), kwargs)
        cache_key == MakeCacheKey(key, context_values)
    IN  /\ thr[t].pc # "constructing"
        /\ IF cache_key \in DOMAIN cache
           THEN thr' = [thr EXCEPT ![t] = [pc |-> "returned", key |-> key,
                                           ctx |-> context_values,
                                           handler |-> cache[cache_key]]]
           ELSE thr' = [thr EXCEPT ![t] = [pc |-> "constructing", key |-> key,
                                           ctx |-> context_values, handler |-> 0]]
        /\ UNCHANGED <<cache, constructed, keyInUse, last, authVars, storeVars, gateVars, toolVars, mcpVars>>

\* lines 113-146: construct the helper, store it under the key, return it
ConstructAndStore(t) ==
    /\ thr[t].pc = "constructing"
    /\ IF Dispatch(thr[t].key, thr[t].ctx) # "ok"
       THEN /\ thr' = [thr EXCEPT ![t].pc = "raised"]
            /\ UNCHANGED <<cache, constructed>>
       ELSE \/ /\ thr' = [thr EXCEPT ![t].pc = "raised"]
               /\ UNCHANGED <<cache, constructed>>
            \/ /\ constructed < MaxHandlers
               /\ constructed' = constructed + 1
               /\ cache' = [k \in DOMAIN cache \cup {MakeCacheKey(thr[t].key, thr[t].ctx)} |->
                               IF k = MakeCacheKey(thr[t].key, thr[t].ctx)
                               THEN constructed + 1 ELSE cache[k]]
               /\ thr' = [thr EXCEPT ![t].pc = "returned", ![t].handler = constructed + 1]
    /\ UNCHANGED <<keyInUse, last, authVars, storeVars, gateVars, toolVars, mcpVars>>

NextFactoryThreads ==
    \/ \E t \in Threads, ctx \in ThreadCtxArgs, kwargs \in KwargsArgs :
            Lookup(t, keyInUse, ctx, kwargs)
    \/ \E t \in Threads : ConstructAndStore(t)

SpecFactoryThreads == InitFactory /\ [][NextFactoryThreads]_vars

(***************************************************************************)
(* Auth token cache (azure_tools/auth.py).  Time is counted in minutes.    *)
(***************************************************************************)
Skew == 5

\* token lifetimes the credential provider reports, in minutes
Lifetimes == {4, 7, 8}

\* datetime.now(): the local wall clock
DatetimeNow == clock + LocalOffset

\* datetime.fromtimestamp(ts): a Unix timestamp as local time
FromTimestamp(ts) == ts + LocalOffset

\* the expiry stored with the reported expires_on taken as it is
StoredExpiry_NoSkew(expires_on) == FromTimestamp(expires_on)

\* lines 37-39: the expiry stored for a token reported to expire at expires_on
StoredExpiry(expires_on) == FromTimestamp(expires_on) - Skew

\* a refresh only once the stored expiry has passed
NeedsRefresh_Late(now) ==
    \/ token = <<>>
    \/ token_expiry = <<>>
    \/ (token_expiry # <<>> /\ now > token_expiry[1])

\* lines 26-30: the test that decides on a refresh
NeedsRefresh(now) ==
    \/ token = <<>>
    \/ token_expiry = <<>>
    \/ (token_expiry # <<>> /\ now >= token_expiry[1])

\* get_token dropping the held token before it asks the credential provider
GetToken_ClearsFirst ==
    LET now == DatetimeNow
    IN  IF NeedsRefresh(now)
        THEN /\ acquisitions < MaxAcquisitions
             /\ acquisitions' = acquisitions + 1
             /\ \/ /\ lastGet' = [now |-> now, held |-> token, acquired |-> FALSE,
                                  result |-> <<>>, raised |-> TRUE]
                   /\ token' = <<>>
                   /\ token_expiry' = <<>>
                   /\ UNCHANGED issued
                \/ \E life \in Lifetimes :
                      /\ issued' = Append(issued, clock + life)
                      /\ token' = <<Len(issued) + 1>>
                      /\ token_expiry' = <<StoredExpiry(clock + life)>>
                      /\ lastGet' = [now |-> now, held |-> token, acquired |-> TRUE,
                                     result |-> <<Len(issued) + 1>>, raised |-> FALSE]
             /\ UNCHANGED <<clock, callers, factoryVars, storeVars, gateVars, toolVars, mcpVars>>
        ELSE /\ lastGet' = [now |-> now, held |-> token, acquired |-> FALSE,
                            result |-> token, raised |-> FALSE]
             /\ UNCHANGED <<token, token_expiry, issued, acquisitions, clock, callers,
                            factoryVars, storeVars, gateVars, toolVars, mcpVars>>

GetToken ==
    LET now == DatetimeNow
    IN  IF NeedsRefresh(now)
        THEN /\ acquisitions < MaxAcquisitions
             /\ acquisitions' = acquisitions + 1
             /\ \/ \* credential.get_token raises
                   /\ lastGet' = [now |-> now, held |-> token, acquired |-> FALSE,
                                  result |-> <<>>, raised |-> TRUE]
                   /\ UNCHANGED <<token, token_expiry, issued>>
                \/ \* credential.get_token returns a token and its expires_on
                   \E life \in Lifetimes :
                      /\ issued' = Append(issued, clock + life)
                      /\ token' = <<Len(issued) + 1>>
                      /\ token_expiry' = <<StoredExpiry(clock + life)>>
                      /\ lastGet' = [now |-> now, held |-> token, acquired |-> TRUE,
                                     result |-> <<Len(issued) + 1>>, raised |-> FALSE]
             /\ UNCHANGED <<clock, callers, factoryVars, storeVars, gateVars, toolVars, mcpVars>>
        ELSE /\ lastGet' = [now |-> now, held |-> token, acquired |-> FALSE,
                            result |-> token, raised |-> FALSE]
             /\ UNCHANGED <<token, token_expiry, issued, acquisitions, clock, callers,
                            factoryVars, storeVars, gateVars, toolVars, mcpVars>>

\* a minute passes
Tick ==
    /\ clock < MaxClock
    /\ clock' = clock + 1
    /\ UNCHANGED <<token, token_expiry, issued, acquisitions, lastGet, callers,
                   factoryVars, storeVars, gateVars, toolVars, mcpVars>>

InitAuth ==
    /\ AuthFresh
    /\ FactoryFresh
    /\ keyInUse = "subscription_resource"
    /\ StoreFresh
    /\ GateFresh
    /\ ToolsFresh
    /\ McpFresh

NextAuth == GetToken \/ Tick

SpecAuth == InitAuth /\ [][NextAuth]_vars

(***************************************************************************)
(* get_token called from several threads on one AzureAuthentication.  The  *)
(* method holds no lock: a thread can be preempted between any two of its  *)
(* statements.                                                             *)
(***************************************************************************)
\* lines 25-30: read the clock and test the held token; line 40 when it is
\* still good
CheckToken(t) ==
    /\ callers[t].pc \in {"idle", "returned", "raised"}
    /\ IF NeedsRefresh(DatetimeNow)
       THEN callers' = [callers EXCEPT ![t] = [NoCaller EXCEPT !.pc = "acquiring"]]
       ELSE callers' = [callers EXCEPT ![t] = [NoCaller EXCEPT !.pc = "returned",
                                                               !.result = token]]
    /\ UNCHANGED <<token, token_expiry, clock, issued, acquisitions, lastGet,
                   factoryVars, storeVars, gateVars, toolVars, mcpVars>>

\* lines 32-34: token_response = self.credential.get_token(...)
AcquireToken(t) ==
    /\ callers[t].pc = "acquiring"
    /\ acquisitions < MaxAcquisitions
    /\ acquisitions' = acquisitions + 1
    /\ \/ /\ callers' = [callers EXCEPT ![t].pc = "raised"]
          /\ UNCHANGED issued
       \/ \E life \in Lifetimes :
            /\ issued' = Append(issued, clock + life)
            /\ callers' = [callers EXCEPT ![t].pc = "acquired",
                                          ![t].response = <<Len(issued) + 1, clock + life>>]
    /\ UNCHANGED <<token, token_expiry, clock, lastGet, factoryVars, storeVars, gateVars, toolVars, mcpVars>>

\* line 35: self.token = token_response.token
AssignToken(t) ==
    /\ callers[t].pc = "acquired"
    /\ token' = <<callers[t].response[1]>>
    /\ callers' = [callers EXCEPT ![t].pc = "token_set"]
    /\ UNCHANGED <<token_expiry, clock, issued, acquisitions, lastGet,
                   factoryVars, storeVars, gateVars, toolVars, mcpVars>>

\* lines 37-40: self.token_expiry = ...; return self.token
AssignExpiry(t) ==
    /\ callers[t].pc = "token_set"
    /\ token_expiry' = <<StoredExpiry(callers[t].response[2])>>
    /\ callers' = [callers EXCEPT ![t].pc = "returned", ![t].result = token]
    /\ UNCHANGED <<token, clock, issued, acquisitions, lastGet,
                   factoryVars, storeVars, gateVars, toolVars, mcpVars>>

\* a minute passes while callers are at work
TickThreads ==
    /\ clock < MaxClock
    /\ clock' = clock + 1
    /\ UNCHANGED <<token, token_expiry, issued, acquisitions, lastGet, callers,
                   factoryVars, storeVars, gateVars, toolVars, mcpVars>>

NextAuthThreads ==
    \/ \E t \in Threads : CheckToken(t)
    \/ \E t \in Threads : AcquireToken(t)
    \/ \E t \in Threads : AssignToken(t)
    \/ \E t \in Threads : AssignExpiry(t)
    \/ TickThreads

SpecAuthThreads == InitAuth /\ [][NextAuthThreads]_vars

(***************************************************************************)
(* set_azure_context (DAPEAgent/azure/shared_tools.py)                     *)
(***************************************************************************)
\* lines 30-52: the value a field holds after the call, given the argument
SetIfAbsent_Overwrite(current, arg) ==
    IF arg # None THEN arg ELSE current

SetIfAbsent(current, arg) ==
    IF Truthy(current) THEN current
    ELSE IF arg # None THEN arg
    ELSE current

\* the argument values explored for each parameter of set_azure_context
ArgValues(f) ==
    CASE f = "subscription_id"     -> {None, "sub-1", "sub-2"}
      [] f = "resource_group_name" -> {None, "", "SQL-RG", "marketing-rg"}
      [] f = "resource_name"       -> {None, "", "adf-stanley"}
      [] f = "intent"              -> {None, "list secrets"}

AllValues == UNION {ArgValues(f) : f \in SetFields}

StoreArgs == {a \in [SetFields -> AllValues] : \A f \in SetFields : a[f] \in ArgValues(f)}

SetAzureContext(args) ==
    /\ azure_ctx' = [f \in StoreFields |->
                       IF f \in SetFields THEN SetIfAbsent(azure_ctx[f], args[f])
                       ELSE azure_ctx[f]]
    \* lines 55-57: c.auth = AzureAuthentication() when none is attached
    /\ ctx_auth' = IF ctx_auth = 0 THEN authMade + 1 ELSE ctx_auth
    /\ authMade' = IF ctx_auth = 0 THEN authMade + 1 ELSE authMade
    /\ firstWrite' = [f \in SetFields |->
                        IF firstWrite[f] = None /\ Truthy(args[f])
                        THEN args[f] ELSE firstWrite[f]]
    /\ laterWrite' = [f \in SetFields |->
                        laterWrite[f] \/ (firstWrite[f] # None /\ args[f] # None)]
    /\ UNCHANGED <<built, ensured>>
    /\ UNCHANGED <<factoryVars, authVars, gateVars, toolVars, mcpVars>>

\* an AzureCtx as the entry points build it: AzureCtx(), AzureCtx(auth=auth),
\* or one given a subscription, resource group and resource name up front
InitStore ==
    /\ azure_ctx \in {c \in [StoreFields -> {None, "sub-1", "SQL-RG", "adf-stanley"}] :
                         /\ c["subscription_id"] \in {None, "sub-1"}
                         /\ c["subscription_name"] = None
                         /\ c["resource_group_name"] \in {None, "SQL-RG"}
                         /\ c["resource_name"] \in {None, "adf-stanley"}
                         /\ c["intent"] = None}
    /\ ctx_auth \in {0, 1}
    /\ authMade = ctx_auth
    /\ ensured = {}
    /\ built = azure_ctx
    /\ firstWrite = [f \in SetFields |-> None]
    /\ laterWrite = [f \in SetFields |-> FALSE]
    /\ GateFresh
    /\ ToolsFresh
    /\ McpFresh
    /\ FactoryFresh
    /\ keyInUse = "subscription_resource"
    /\ AuthFresh

\* ensure_auth constructing an AzureAuthentication on every call
EnsureAuth_AlwaysNew ==
    /\ ctx_auth' = authMade + 1
    /\ authMade' = authMade + 1
    /\ ensured' = ensured \cup {ctx_auth'}
    /\ UNCHANGED <<azure_ctx, built, firstWrite, laterWrite, factoryVars, authVars, gateVars, toolVars, mcpVars>>

\* AzureCtx.ensure_auth (DAPEAgent/config.py, lines 45-49)
EnsureAuth ==
    /\ ctx_auth' = IF ctx_auth = 0 THEN authMade + 1 ELSE ctx_auth
    /\ authMade' = IF ctx_auth = 0 THEN authMade + 1 ELSE authMade
    /\ ensured' = ensured \cup {ctx_auth'}
    /\ UNCHANGED <<azure_ctx, built, firstWrite, laterWrite, factoryVars, authVars, gateVars, toolVars, mcpVars>>

NextStore ==
    \/ \E args \in StoreArgs : SetAzureContext(args)
    \/ EnsureAuth

SpecStore == InitStore /\ [][NextStore]_vars

(***************************************************************************)
(* Guardrail gate (DAPEAgent/triage_agent.py).  Texts are sequences of     *)
(* characters.                                                             *)
(***************************************************************************)
\* lines 183-191: skip_phrases of resource_group_guardrail
RgSkipPhrases == {
    \* 'list all subscriptions'
    <<"l", "i", "s", "t", " ", "a", "l", "l", " ", "s", "u", "b", "s", "c",
      "r", "i", "p", "t", "i", "o", "n", "s">>,
    \* 'show subscriptions'
    <<"s", "h", "o", "w", " ", "s", "u", "b", "s", "c", "r", "i", "p", "t",
      "i", "o", "n", "s">>,
    \* 'list subscriptions'
    <<"l", "i", "s", "t", " ", "s", "u", "b", "s", "c", "r", "i", "p", "t",
      "i", "o", "n", "s">>,
    \* 'switch to subscription'
    <<"s", "w", "i", "t", "c", "h", " ", "t", "o", " ", "s", "u", "b", "s",
      "c", "r", "i", "p", "t", "i", "o", "n">>,
    \* 'list resource groups'
    <<"l", "i", "s", "t", " ", "r", "e", "s", "o", "u", "r", "c", "e", " ",
      "g", "r", "o", "u", "p", "s">>,
    \* 'show resource groups'
    <<"s", "h", "o", "w", " ", "r", "e", "s", "o", "u", "r", "c", "e", " ",
      "g", "r", "o", "u", "p", "s">>,
    \* 'list all resource groups'
    <<"l", "i", "s", "t", " ", "a", "l", "l", " ", "r", "e", "s", "o", "u",
      "r", "c", "e", " ", "g", "r", "o", "u", "p", "s">>
}

\* lines 256-266: skip_phrases of resource_exists_guardrail
ResSkipPhrases == {
    \* 'list all subscriptions'
    <<"l", "i", "s", "t", " ", "a", "l", "l", " ", "s", "u", "b", "s", "c",
      "r", "i", "p", "t", "i", "o", "n", "s">>,
    \* 'show subscriptions'
    <<"s", "h", "o", "w", " ", "s", "u", "b", "s", "c", "r", "i", "p", "t",
      "i", "o", "n", "s">>,
    \* 'list subscriptions'
    <<"l", "i", "s", "t", " ", "s", "u", "b", "s", "c", "r", "i", "p", "t",
      "i", "o", "n", "s">>,
    \* 'switch to subscription'
    <<"s", "w", "i", "t", "c", "h", " ", "t", "o", " ", "s", "u", "b", "s",
      "c", "r", "i", "p", "t", "i", "o", "n">>,
    \* 'list resource groups'
    <<"l", "i", "s", "t", " ", "r", "e", "s", "o", "u", "r", "c", "e", " ",
      "g", "r", "o", "u", "p", "s">>,
    \* 'show resource groups'
    <<"s", "h", "o", "w", " ", "r", "e", "s", "o", "u", "r", "c", "e", " ",
      "g", "r", "o", "u", "p", "s">>,
    \* 'list all resource groups'
    <<"l", "i", "s", "t", " ", "a", "l", "l", " ", "r", "e", "s", "o", "u",
      "r", "c", "e", " ", "g", "r", "o", "u", "p", "s">>,
    \* 'list all resources'
    <<"l", "i", "s", "t", " ", "a", "l", "l", " ", "r", "e", "s", "o", "u",
      "r", "c", "e", "s">>,
    \* 'show all resources'
    <<"s", "h", "o", "w", " ", "a", "l", "l", " ", "r", "e", "s", "o", "u",
      "r", "c", "e", "s">>
}

\* lines 207-210: the same-scope phrases of resource_group_guardrail
RgFollowUpPhrases == {
    \* 'test the connection'
    <<"t", "e", "s", "t", " ", "t", "h", "e", " ", "c", "o", "n", "n", "e",
      "c", "t", "i", "o", "n">>,
    \* 'test connection'
    <<"t", "e", "s", "t", " ", "c", "o", "n", "n", "e", "c", "t", "i", "o",
      "n">>,
    \* 'list linked services'
    <<"l", "i", "s", "t", " ", "l", "i", "n", "k", "e", "d", " ", "s", "e",
      "r", "v", "i", "c", "e", "s">>,
    \* 'show linked services'
    <<"s", "h", "o", "w", " ", "l", "i", "n", "k", "e", "d", " ", "s", "e",
      "r", "v", "i", "c", "e", "s">>,
    \* 'in the same'
    <<"i", "n", " ", "t", "h", "e", " ", "s", "a", "m", "e">>,
    \* 'same data factory'
    <<"s", "a", "m", "e", " ", "d", "a", "t", "a", " ", "f", "a", "c", "t",
      "o", "r", "y">>
}

\* lines 283-286: the same-scope phrases of resource_exists_guardrail
ResFollowUpPhrases == {
    \* 'test the connection'
    <<"t", "e", "s", "t", " ", "t", "h", "e", " ", "c", "o", "n", "n", "e",
      "c", "t", "i", "o", "n">>,
    \* 'test connection'
    <<"t", "e", "s", "t", " ", "c", "o", "n", "n", "e", "c", "t", "i", "o",
      "n">>,
    \* 'list linked services'
    <<"l", "i", "s", "t", " ", "l", "i", "n", "k", "e", "d", " ", "s", "e",
      "r", "v", "i", "c", "e", "s">>,
    \* 'show linked services'
    <<"s", "h", "o", "w", " ", "l", "i", "n", "k", "e", "d", " ", "s", "e",
      "r", "v", "i", "c", "e", "s">>,
    \* 'in the same'
    <<"i", "n", " ", "t", "h", "e", " ", "s", "a", "m", "e">>,
    \* 'same data factory'
    <<"s", "a", "m", "e", " ", "d", "a", "t", "a", " ", "f", "a", "c", "t",
      "o", "r", "y">>
}

\* line 221: rg_keywords
RgKeywords == {
    \* 'resource group'
    <<"r", "e", "s", "o", "u", "r", "c", "e", " ", "g", "r", "o", "u", "p">>,
    \* 'resource-group'
    <<"r", "e", "s", "o", "u", "r", "c", "e", "-", "g", "r", "o", "u", "p">>,
    \* 'rg '
    <<"r", "g", " ">>
}

\* lines 298-301: resource_keywords
ResourceKeywords == {
    \* 'data factory'
    <<"d", "a", "t", "a", " ", "f", "a", "c", "t", "o", "r", "y">>,
    \* 'adf'
    <<"a", "d", "f">>,
    \* 'key vault'
    <<"k", "e", "y", " ", "v", "a", "u", "l", "t">>,
    \* 'batch account'
    <<"b", "a", "t", "c", "h", " ", "a", "c", "c", "o", "u", "n", "t">>,
    \* 'linked service'
    <<"l", "i", "n", "k", "e", "d", " ", "s", "e", "r", "v", "i", "c", "e">>,
    \* 'pipeline'
    <<"p", "i", "p", "e", "l", "i", "n", "e">>,
    \* 'trigger'
    <<"t", "r", "i", "g", "g", "e", "r">>
}

\* the requests explored
Requests == {"list_subs", "followup", "missing_rg", "all_in_rg", "vault", "hello", "ls_in_rg", "rgs_with_adf"}


\* the text of a request
RequestText(r) ==
    CASE r = "list_subs" ->  \* 'List all subscriptions I have access to'
            <<"L", "i", "s", "t", " ", "a", "l", "l", " ", "s", "u", "b", "s",
              "c", "r", "i", "p", "t", "i", "o", "n", "s", " ", "I", " ", "h",
              "a", "v", "e", " ", "a", "c", "c", "e", "s", "s", " ", "t", "o">>
      [] r = "followup" ->  \* 'test the connection for linked service X in the same data factory'
            <<"t", "e", "s", "t", " ", "t", "h", "e", " ", "c", "o", "n", "n",
              "e", "c", "t", "i", "o", "n", " ", "f", "o", "r", " ", "l", "i",
              "n", "k", "e", "d", " ", "s", "e", "r", "v", "i", "c", "e", " ",
              "X", " ", "i", "n", " ", "t", "h", "e", " ", "s", "a", "m", "e",
              " ", "d", "a", "t", "a", " ", "f", "a", "c", "t", "o", "r", "y">>
      [] r = "missing_rg" ->  \* 'Delete the resource group marketing-rg'
            <<"D", "e", "l", "e", "t", "e", " ", "t", "h", "e", " ", "r", "e",
              "s", "o", "u", "r", "c", "e", " ", "g", "r", "o", "u", "p", " ",
              "m", "a", "r", "k", "e", "t", "i", "n", "g", "-", "r", "g">>
      [] r = "all_in_rg" ->  \* 'List all resources in resource group marketing-rg'
            <<"L", "i", "s", "t", " ", "a", "l", "l", " ", "r", "e", "s", "o",
              "u", "r", "c", "e", "s", " ", "i", "n", " ", "r", "e", "s", "o",
              "u", "r", "c", "e", " ", "g", "r", "o", "u", "p", " ", "m", "a",
              "r", "k", "e", "t", "i", "n", "g", "-", "r", "g">>
      [] r = "vault" ->  \* 'Show the secrets in key vault kv-prod'
            <<"S", "h", "o", "w", " ", "t", "h", "e", " ", "s", "e", "c", "r",
              "e", "t", "s", " ", "i", "n", " ", "k", "e", "y", " ", "v", "a",
              "u", "l", "t", " ", "k", "v", "-", "p", "r", "o", "d">>
      [] r = "hello" ->  \* 'What can you do?'
            <<"W", "h", "a", "t", " ", "c", "a", "n", " ", "y", "o", "u", " ",
              "d", "o", "?">>
      [] r = "ls_in_rg" ->  \* 'list linked services in resource group SQL-RG'
            <<"l", "i", "s", "t", " ", "l", "i", "n", "k", "e", "d", " ", "s",
              "e", "r", "v", "i", "c", "e", "s", " ", "i", "n", " ", "r", "e",
              "s", "o", "u", "r", "c", "e", " ", "g", "r", "o", "u", "p", " ",
              "S", "Q", "L", "-", "R", "G">>
      [] r = "rgs_with_adf" ->  \* 'Show resource groups that hold a data factory'
            <<"S", "h", "o", "w", " ", "r", "e", "s", "o", "u", "r", "c", "e",
              " ", "g", "r", "o", "u", "p", "s", " ", "t", "h", "a", "t", " ",
              "h", "o", "l", "d", " ", "a", " ", "d", "a", "t", "a", " ", "f",
              "a", "c", "t", "o", "r", "y">>

\* str.lower() of one character
LowerChar(c) ==
    CASE c = "A" -> "a" [] c = "B" -> "b" [] c = "C" -> "c" [] c = "D" -> "d"
      [] c = "E" -> "e" [] c = "F" -> "f" [] c = "G" -> "g" [] c = "H" -> "h"
      [] c = "I" -> "i" [] c = "J" -> "j" [] c = "K" -> "k" [] c = "L" -> "l"
      [] c = "M" -> "m" [] c = "N" -> "n" [] c = "O" -> "o" [] c = "P" -> "p"
      [] c = "Q" -> "q" [] c = "R" -> "r" [] c = "S" -> "s" [] c = "T" -> "t"
      [] c = "U" -> "u" [] c = "V" -> "v" [] c = "W" -> "w" [] c = "X" -> "x"
      [] c = "Y" -> "y" [] c = "Z" -> "z" [] OTHER -> c

\* str(input_data).lower()
Lower(text) == [i \in 1..Len(text) |-> LowerChar(text[i])]

\* phrase in text
Contains(text, phrase) ==
    \E i \in 1..(Len(text) - Len(phrase) + 1) :
        SubSeq(text, i, i + Len(phrase) - 1) = phrase

\* any(phrase in input_text for phrase in phrases)
AnyIn(phrases, input_text) == \E phrase \in phrases : Contains(input_text, phrase)

\* the branch resource_group_guardrail takes with the same-scope test made
\* whether or not the context holds a resource group
RgDecision_NoHeldTest(input_text, held) ==
    IF AnyIn(RgSkipPhrases, input_text) THEN "generic"
    ELSE IF AnyIn(RgFollowUpPhrases, input_text) THEN "followup"
    ELSE IF ~AnyIn(RgKeywords, input_text) THEN "no_mention"
    ELSE "verify"

\* the branch resource_group_guardrail takes with no generic-phrase test
RgDecision_NoGenericTest(input_text, held) ==
    IF Truthy(held) /\ AnyIn(RgFollowUpPhrases, input_text) THEN "followup"
    ELSE IF ~AnyIn(RgKeywords, input_text) THEN "no_mention"
    ELSE "verify"

\* lines 193-233: the branch resource_group_guardrail takes
RgDecision(input_text, held) ==
    IF AnyIn(RgSkipPhrases, input_text) THEN "generic"
    ELSE IF Truthy(held) /\ AnyIn(RgFollowUpPhrases, input_text) THEN "followup"
    ELSE IF ~AnyIn(RgKeywords, input_text) THEN "no_mention"
    ELSE "verify"

\* the branch resource_exists_guardrail takes with the keyword test made
\* before the same-scope test
ResDecision_KeywordFirst(input_text, held) ==
    IF AnyIn(ResSkipPhrases, input_text) THEN "generic"
    ELSE IF AnyIn(ResourceKeywords, input_text) THEN "verify"
    ELSE IF Truthy(held) /\ AnyIn(ResFollowUpPhrases, input_text) THEN "followup"
    ELSE "no_mention"

\* the branch resource_exists_guardrail takes with the generic-phrase test
\* left out
ResDecision_NoGenericTest(input_text, held) ==
    IF Truthy(held) /\ AnyIn(ResFollowUpPhrases, input_text) THEN "followup"
    ELSE IF ~AnyIn(ResourceKeywords, input_text) THEN "no_mention"
    ELSE "verify"

\* lines 268-314: the branch resource_exists_guardrail takes
ResDecision(input_text, held) ==
    IF AnyIn(ResSkipPhrases, input_text) THEN "generic"
    ELSE IF Truthy(held) /\ AnyIn(ResFollowUpPhrases, input_text) THEN "followup"
    ELSE IF ~AnyIn(ResourceKeywords, input_text) THEN "no_mention"
    ELSE "verify"

\* the GuardrailFunctionOutput of a branch that returns without verification
Skipped(path, held) ==
    [pc |-> "done", calls |-> 0, held |-> held, exists |-> TRUE,
     name |-> IF path = "followup" THEN held ELSE "N/A",
     tripwire |-> FALSE, path |-> path]

\* the names a verification verdict carries (a pydantic str)
RgVerdictNames == {"", "SQL-RG"}

ResVerdictNames == {"", "adf-stanley"}

\* a tripwire that no verdict triggers
Tripwire_Never(exists) == FALSE

\* lines 244-247, 325-328: tripwire_triggered = not final_output.<...>_exists
Tripwire(exists) == ~exists

\* the verdict's name stored whatever the verdict says
StoreVerdict_Always(c, field, exists, name) == [c EXCEPT ![field] = name]

\* lines 241-242, 322-323: the verdict's name is stored when the resource exists
StoreVerdict(c, field, exists, name) ==
    IF exists THEN [c EXCEPT ![field] = name] ELSE c

\* a request arrives: Runner.run(triage, query, context=ctx)
NewRequest(r) ==
    /\ rgCheck.pc # "verifying"
    /\ resCheck.pc # "verifying"
    /\ request' = r
    /\ rgCheck' = NoCheck
    /\ resCheck' = NoCheck
    /\ UNCHANGED <<factoryVars, authVars, storeVars, toolVars, mcpVars>>

\* resource_group_guardrail up to its return or its await (lines 177-237)
RgGuardrailStart ==
    /\ request # "-"
    /\ rgCheck.pc = "idle"
    /\ LET held == azure_ctx["resource_group_name"]
           path == RgDecision(Lower(RequestText(request)), held)
       IN  rgCheck' = IF path = "verify"
                      THEN [NoCheck EXCEPT !.pc = "verifying", !.calls = 1, !.held = held]
                      ELSE Skipped(path, held)
    /\ UNCHANGED <<request, resCheck, factoryVars, authVars, storeVars, toolVars, mcpVars>>

\* resource_group_guardrail after the verification agent has run (lines 237-247)
RgGuardrailFinish ==
    /\ rgCheck.pc = "verifying"
    /\ \/ \* Runner.run raises
          /\ rgCheck' = [rgCheck EXCEPT !.pc = "raised"]
          /\ UNCHANGED azure_ctx
       \/ \E exists \in BOOLEAN, name \in RgVerdictNames :
          /\ azure_ctx' = StoreVerdict(azure_ctx, "resource_group_name", exists, name)
          /\ rgCheck' = [rgCheck EXCEPT !.pc = "done", !.exists = exists, !.name = name,
                                        !.tripwire = Tripwire(exists), !.path = "verified"]
    /\ UNCHANGED <<request, resCheck, ctx_auth, authMade, ensured, built, firstWrite, laterWrite,
                   factoryVars, authVars, toolVars, mcpVars>>

\* resource_exists_guardrail up to its return or its await (lines 250-318)
ResGuardrailStart ==
    /\ request # "-"
    /\ resCheck.pc = "idle"
    /\ LET held == azure_ctx["resource_name"]
           path == ResDecision(Lower(RequestText(request)), held)
       IN  resCheck' = IF path = "verify"
                       THEN [NoCheck EXCEPT !.pc = "verifying", !.calls = 1, !.held = held]
                       ELSE Skipped(path, held)
    /\ UNCHANGED <<request, rgCheck, factoryVars, authVars, storeVars, toolVars, mcpVars>>

\* resource_exists_guardrail after the verification agent has run (lines 318-328)
ResGuardrailFinish ==
    /\ resCheck.pc = "verifying"
    /\ \/ \* Runner.run raises
          /\ resCheck' = [resCheck EXCEPT !.pc = "raised"]
          /\ UNCHANGED azure_ctx
       \/ \E exists \in BOOLEAN, name \in ResVerdictNames :
          /\ azure_ctx' = StoreVerdict(azure_ctx, "resource_name", exists, name)
          /\ resCheck' = [resCheck EXCEPT !.pc = "done", !.exists = exists, !.name = name,
                                          !.tripwire = Tripwire(exists), !.path = "verified"]
    /\ UNCHANGED <<request, rgCheck, ctx_auth, authMade, ensured, built, firstWrite, laterWrite,
                   factoryVars, authVars, toolVars, mcpVars>>

(***************************************************************************)
(* Tool functions: how a tool call ends                                    *)
(***************************************************************************)
\* where a tool call can fail: obtaining the helper, or the operation on it
FailurePoints == {"none", "handle", "operation"}

\* a tool that obtains its helper before entering the try block
Guarded_OperationOnly == {"operation"}

\* the failure points inside the tool's try block: every tool body starts
\* with "try:" and ends with "except Exception as e: return f'Error ...'"
Guarded == {"handle", "operation"}

\* what the caller of the tool gets
ToolReturn(failure) ==
    IF failure = "none" THEN "text"
    ELSE IF failure \in Guarded THEN "error_text"
    ELSE "raised"

\* the scope a tool call ran under
ScopeOf(c) ==
    [f \in {"subscription_id", "resource_group_name", "resource_name"} |-> c[f]]

ToolRecord(tool, failure, handler, c) ==
    [tool |-> tool, failure |-> failure, outcome |-> ToolReturn(failure),
     handler |-> handler, ctx |-> ScopeOf(c)]

\* what SubscriptionResourceManager reports after a switch: (id, name)
Subscriptions == {<<"sub-2", "Prod">>}

\* switch_subscription (lines 36-50): the whole body is inside try/except
SwitchSubscription ==
    /\ \/ \* the switch raises: the error text is returned, nothing is stored
          /\ UNCHANGED azure_ctx
          /\ lastTool' = ToolRecord("switch_subscription", "operation", <<>>, azure_ctx)
       \/ \E sub \in Subscriptions :
             /\ azure_ctx' = [azure_ctx EXCEPT !["subscription_id"] = sub[1],
                                   !["subscription_name"] = sub[2]]
             /\ lastTool' = ToolRecord("switch_subscription", "none", <<>>, azure_ctx')
    /\ UNCHANGED <<ctx_auth, authMade, ensured, built, firstWrite, laterWrite,
                   factoryVars, authVars, gateVars, helpers, mcpVars>>

\* The guardrail agent runs on the AzureCtx of utils/azure_adapters.py, built
\* by its caller with any of its fields given; its tools are
\* switch_subscription and list_subscriptions, and set_azure_context is not
\* among them (get_agent, lines 350-353).
InitGate ==
    /\ InitStore
    /\ ctx_auth = 0

NextGate ==
    \/ \E r \in Requests : NewRequest(r)
    \/ RgGuardrailStart
    \/ RgGuardrailFinish
    \/ ResGuardrailStart
    \/ ResGuardrailFinish
    \/ SwitchSubscription

SpecGate == InitGate /\ [][NextGate]_vars

(***************************************************************************)
(* Tool functions exposed to the agents                                    *)
(***************************************************************************)
\* the triage tools that go through get_resource_handler
TriageTools == {"list_subscriptions", "list_rg_in_subscription", "list_resource_in_sub"}

\* the specialist tools of the linked-services and key-vault agents
SpecialistTools == {"list_linked_services", "get_linked_service_details",
                    "test_linked_service_connection",
                    "list_secrets", "get_secret", "set_secret"}

\* the helper class a specialist tool works on
HelperClass(tool) ==
    IF tool \in {"list_secrets", "get_secret", "set_secret"}
    THEN "keyvault"
    ELSE "adf.linked_services"

\* ctx.context as get_resource_handler receives it from a triage tool
AdapterCtx(c) ==
    [repr |-> "AzureCtx",
     fields |-> [f \in Fields |-> IF f \in StoreFields THEN c[f] ELSE None]]

\* list_subscriptions / list_rg_in_subscription / list_resource_in_sub:
\*   try: service = get_resource_handler("subscription_resource", ctx.context)
\*        ... service.<operation>() ... return json.dumps(...)
\*   except Exception as e: return f"Error ...: {str(e)}"
TriageTool(tool) ==
    /\ GetResourceHandler("subscription_resource", AdapterCtx(azure_ctx), EmptyDict)
    /\ IF last'.outcome = "error"
       THEN lastTool' = ToolRecord(tool, "handle", <<>>, azure_ctx)
       ELSE \E failure \in {"none", "operation"} :
                lastTool' = ToolRecord(tool, failure, <<"cached", last'.handler>>, azure_ctx)
    /\ UNCHANGED <<helpers, mcpVars>>

\* a specialist tool:
\*   try: c = ctx.context
\*        service = Helper(subscription_id=..., resource_group_name=...,
\*                         resource_name=..., auth=c.ensure_auth())
\*        ... service.<operation>() ... return json.dumps(...)
\*   except Exception as e: return f"Error ...: {str(e)}"
SpecialistTool(tool) ==
    /\ \/ \* creating the AzureAuthentication raises
          /\ ctx_auth = 0
          /\ UNCHANGED <<ctx_auth, authMade, ensured, helpers>>
          /\ lastTool' = ToolRecord(tool, "handle", <<>>, azure_ctx)
       \/ \* ensure_auth returns, the helper's constructor raises
          /\ ctx_auth' = IF ctx_auth = 0 THEN authMade + 1 ELSE ctx_auth
          /\ authMade' = IF ctx_auth = 0 THEN authMade + 1 ELSE authMade
          /\ ensured' = ensured \cup {ctx_auth'}
          /\ UNCHANGED helpers
          /\ lastTool' = ToolRecord(tool, "handle", <<>>, azure_ctx)
       \/ \* a new helper is constructed; the operation on it succeeds or raises
          /\ helpers < MaxHelpers
          /\ ctx_auth' = IF ctx_auth = 0 THEN authMade + 1 ELSE ctx_auth
          /\ authMade' = IF ctx_auth = 0 THEN authMade + 1 ELSE authMade
          /\ ensured' = ensured \cup {ctx_auth'}
          /\ helpers' = helpers + 1
          /\ \E failure \in {"none", "operation"} :
                lastTool' = ToolRecord(tool, failure, <<"direct", helpers + 1>>, azure_ctx)
    /\ UNCHANGED <<azure_ctx, built, firstWrite, laterWrite,
                   factoryVars, authVars, gateVars, mcpVars>>

InitTools == InitStore

NextTools ==
    \/ \E tool \in TriageTools : TriageTool(tool)
    \/ \E tool \in SpecialistTools : SpecialistTool(tool)
    \/ SwitchSubscription

SpecTools == InitTools /\ [][NextTools]_vars

(***************************************************************************)
(* MCP tool filter: allow_tools, in its two variants                       *)
(***************************************************************************)
\* DAPEAgent/azure/mcp/azure_mcp_agent.py and DAPEAgent/mcp/azure_mcp_agent.py
Variants == {"azure/mcp", "mcp"}

\* tool_list of DAPEAgent/azure/mcp/azure_mcp_agent.py
ToolListAzure == {
    \* 'storage'
    <<"s", "t", "o", "r", "a", "g", "e">>,
    \* 'kusto'
    <<"k", "u", "s", "t", "o">>
}

\* tool_list of DAPEAgent/mcp/azure_mcp_agent.py
ToolListMcp == {
    \* 'microsoft_docs_search'
    <<"m", "i", "c", "r", "o", "s", "o", "f", "t", "_", "d", "o", "c", "s",
      "_", "s", "e", "a", "r", "c", "h">>,
    \* 'azmcp-azureterraformbestpractices-get'
    <<"a", "z", "m", "c", "p", "-", "a", "z", "u", "r", "e", "t", "e", "r",
      "r", "a", "f", "o", "r", "m", "b", "e", "s", "t", "p", "r", "a", "c",
      "t", "i", "c", "e", "s", "-", "g", "e", "t">>,
    \* 'azmcp-bestpractices-get'
    <<"a", "z", "m", "c", "p", "-", "b", "e", "s", "t", "p", "r", "a", "c",
      "t", "i", "c", "e", "s", "-", "g", "e", "t">>,
    \* 'azmcp-bicepschema-get'
    <<"a", "z", "m", "c", "p", "-", "b", "i", "c", "e", "p", "s", "c", "h",
      "e", "m", "a", "-", "g", "e", "t">>,
    \* 'azmcp-cosmos-account-list'
    <<"a", "z", "m", "c", "p", "-", "c", "o", "s", "m", "o", "s", "-", "a",
      "c", "c", "o", "u", "n", "t", "-", "l", "i", "s", "t">>,
    \* 'azmcp-cosmos-database-container-item-query'
    <<"a", "z", "m", "c", "p", "-", "c", "o", "s", "m", "o", "s", "-", "d",
      "a", "t", "a", "b", "a", "s", "e", "-", "c", "o", "n", "t", "a", "i",
      "n", "e", "r", "-", "i", "t", "e", "m", "-", "q", "u", "e", "r", "y">>,
    \* 'azmcp-cosmos-database-container-list'
    <<"a", "z", "m", "c", "p", "-", "c", "o", "s", "m", "o", "s", "-", "d",
      "a", "t", "a", "b", "a", "s", "e", "-", "c", "o", "n", "t", "a", "i",
      "n", "e", "r", "-", "l", "i", "s", "t">>,
    \* 'azmcp-cosmos-database-list'
    <<"a", "z", "m", "c", "p", "-", "c", "o", "s", "m", "o", "s", "-", "d",
      "a", "t", "a", "b", "a", "s", "e", "-", "l", "i", "s", "t">>,
    \* 'azmcp-foundry-models-deploy'
    <<"a", "z", "m", "c", "p", "-", "f", "o", "u", "n", "d", "r", "y", "-",
      "m", "o", "d", "e", "l", "s", "-", "d", "e", "p", "l", "o", "y">>,
    \* 'azmcp-foundry-models-deployments-list'
    <<"a", "z", "m", "c", "p", "-", "f", "o", "u", "n", "d", "r", "y", "-",
      "m", "o", "d", "e", "l", "s", "-", "d", "e", "p", "l", "o", "y", "m",
      "e", "n", "t", "s", "-", "l", "i", "s", "t">>,
    \* 'azmcp-foundry-models-list'
    <<"a", "z", "m", "c", "p", "-", "f", "o", "u", "n", "d", "r", "y", "-",
      "m", "o", "d", "e", "l", "s", "-", "l", "i", "s", "t">>,
    \* 'azmcp-group-list'
    <<"a", "z", "m", "c", "p", "-", "g", "r", "o", "u", "p", "-", "l", "i",
      "s", "t">>,
    \* 'azmcp-kusto-cluster-get'
    <<"a", "z", "m", "c", "p", "-", "k", "u", "s", "t", "o", "-", "c", "l",
      "u", "s", "t", "e", "r", "-", "g", "e", "t">>,
    \* 'azmcp-kusto-cluster-list'
    <<"a", "z", "m", "c", "p", "-", "k", "u", "s", "t", "o", "-", "c", "l",
      "u", "s", "t", "e", "r", "-", "l", "i", "s", "t">>,
    \* 'azmcp-kusto-database-list'
    <<"a", "z", "m", "c", "p", "-", "k", "u", "s", "t", "o", "-", "d", "a",
      "t", "a", "b", "a", "s", "e", "-", "l", "i", "s", "t">>,
    \* 'azmcp-kusto-query'
    <<"a", "z", "m", "c", "p", "-", "k", "u", "s", "t", "o", "-", "q", "u",
      "e", "r", "y">>,
    \* 'azmcp-kusto-sample'
    <<"a", "z", "m", "c", "p", "-", "k", "u", "s", "t", "o", "-", "s", "a",
      "m", "p", "l", "e">>,
    \* 'azmcp-kusto-table-list'
    <<"a", "z", "m", "c", "p", "-", "k", "u", "s", "t", "o", "-", "t", "a",
      "b", "l", "e", "-", "l", "i", "s", "t">>,
    \* 'azmcp-kusto-table-schema'
    <<"a", "z", "m", "c", "p", "-", "k", "u", "s", "t", "o", "-", "t", "a",
      "b", "l", "e", "-", "s", "c", "h", "e", "m", "a">>,
    \* 'azmcp-monitor-healthmodels-entity-gethealth'
    <<"a", "z", "m", "c", "p", "-", "m", "o", "n", "i", "t", "o", "r", "-",
      "h", "e", "a", "l", "t", "h", "m", "o", "d", "e", "l", "s", "-", "e",
      "n", "t", "i", "t", "y", "-", "g", "e", "t", "h", "e", "a", "l", "t",
      "h">>,
    \* 'azmcp-monitor-metrics-definitions'
    <<"a", "z", "m", "c", "p", "-", "m", "o", "n", "i", "t", "o", "r", "-",
      "m", "e", "t", "r", "i", "c", "s", "-", "d", "e", "f", "i", "n", "i",
      "t", "i", "o", "n", "s">>,
    \* 'azmcp-monitor-metrics-query'
    <<"a", "z", "m", "c", "p", "-", "m", "o", "n", "i", "t", "o", "r", "-",
      "m", "e", "t", "r", "i", "c", "s", "-", "q", "u", "e", "r", "y">>,
    \* 'azmcp-monitor-resource-log-query'
    <<"a", "z", "m", "c", "p", "-", "m", "o", "n", "i", "t", "o", "r", "-",
      "r", "e", "s", "o", "u", "r", "c", "e", "-", "l", "o", "g", "-", "q",
      "u", "e", "r", "y">>,
    \* 'azmcp-monitor-table-list'
    <<"a", "z", "m", "c", "p", "-", "m", "o", "n", "i", "t", "o", "r", "-",
      "t", "a", "b", "l", "e", "-", "l", "i", "s", "t">>,
    \* 'azmcp-monitor-table-type-list'
    <<"a", "z", "m", "c", "p", "-", "m", "o", "n", "i", "t", "o", "r", "-",
      "t", "a", "b", "l", "e", "-", "t", "y", "p", "e", "-", "l", "i", "s",
      "t">>,
    \* 'azmcp-monitor-workspace-list'
    <<"a", "z", "m", "c", "p", "-", "m", "o", "n", "i", "t", "o", "r", "-",
      "w", "o", "r", "k", "s", "p", "a", "c", "e", "-", "l", "i", "s", "t">>,
    \* 'azmcp-monitor-workspace-log-query'
    <<"a", "z", "m", "c", "p", "-", "m", "o", "n", "i", "t", "o", "r", "-",
      "w", "o", "r", "k", "s", "p", "a", "c", "e", "-", "l", "o", "g", "-",
      "q", "u", "e", "r", "y">>,
    \* 'azmcp-role-assignment-list'
    <<"a", "z", "m", "c", "p", "-", "r", "o", "l", "e", "-", "a", "s", "s",
      "i", "g", "n", "m", "e", "n", "t", "-", "l", "i", "s", "t">>,
    \* 'azmcp-subscription-list'
    <<"a", "z", "m", "c", "p", "-", "s", "u", "b", "s", "c", "r", "i", "p",
      "t", "i", "o", "n", "-", "l", "i", "s", "t">>
}

ToolList(variant) == IF variant = "azure/mcp" THEN ToolListAzure ELSE ToolListMcp

\* '-storage-'
StorageInfix == <<"-", "s", "t", "o", "r", "a", "g", "e", "-">>

\* the infixes a variant's condition tests for
FamilyInfix(variant) == IF variant = "azure/mcp" THEN {StorageInfix} ELSE {}

\* the tool names of the remote catalog explored
CatalogNames == {
    \* 'storage'
    <<"s", "t", "o", "r", "a", "g", "e">>,
    \* 'kusto'
    <<"k", "u", "s", "t", "o">>,
    \* 'Storage'
    <<"S", "t", "o", "r", "a", "g", "e">>,
    \* 'azmcp-storage-account-list'
    <<"a", "z", "m", "c", "p", "-", "s", "t", "o", "r", "a", "g", "e", "-",
      "a", "c", "c", "o", "u", "n", "t", "-", "l", "i", "s", "t">>,
    \* 'azmcp-storage-blob-list'
    <<"a", "z", "m", "c", "p", "-", "s", "t", "o", "r", "a", "g", "e", "-",
      "b", "l", "o", "b", "-", "l", "i", "s", "t">>,
    \* 'azmcp-storage'
    <<"a", "z", "m", "c", "p", "-", "s", "t", "o", "r", "a", "g", "e">>,
    \* 'storage-account'
    <<"s", "t", "o", "r", "a", "g", "e", "-", "a", "c", "c", "o", "u", "n",
      "t">>,
    \* 'azmcp-kusto-query'
    <<"a", "z", "m", "c", "p", "-", "k", "u", "s", "t", "o", "-", "q", "u",
      "e", "r", "y">>,
    \* 'azmcp-subscription-list'
    <<"a", "z", "m", "c", "p", "-", "s", "u", "b", "s", "c", "r", "i", "p",
      "t", "i", "o", "n", "-", "l", "i", "s", "t">>,
    \* 'azmcp-keyvault-key-get'
    <<"a", "z", "m", "c", "p", "-", "k", "e", "y", "v", "a", "u", "l", "t",
      "-", "k", "e", "y", "-", "g", "e", "t">>,
    \* 'microsoft_docs_search'
    <<"m", "i", "c", "r", "o", "s", "o", "f", "t", "_", "d", "o", "c", "s",
      "_", "s", "e", "a", "r", "c", "h">>
}

\* the ToolFilterContext values explored
FilterContexts == {"ctx-1", "ctx-2"}

\* allow_tools with the exact-name test only
AllowTools_ExactOnly(variant, ctx, name) == name \in ToolList(variant)

\* allow_tools(ctx, tool), on tool.name
AllowTools(variant, ctx, name) ==
    IF variant = "azure/mcp"
    THEN name \in ToolListAzure \/ Contains(name, StorageInfix)
    ELSE name \in ToolListMcp

\* one call of allow_tools by the MCP server object
AllowToolsCall ==
    /\ \E variant \in Variants, ctx \in FilterContexts, name \in CatalogNames :
          filterCall' = [variant |-> variant, ctx |-> ctx, name |-> name,
                         result |-> AllowTools(variant, ctx, name),
                         nameAfter |-> name]
    /\ filterPrev' = filterCall
    /\ UNCHANGED <<factoryVars, authVars, storeVars, gateVars, toolVars, turnVars, agentVars>>

\* everything else is as constructed
InitFilter == InitAuth

NextFilter == AllowToolsCall

SpecFilter == InitFilter /\ [][NextFilter]_vars

(***************************************************************************)
(* One conversation turn: run_triage_agent (DAPEAgent/azure/triage_agent.py)*)
(* and its copy run_agent (streamlit_ui.py)                                *)
(***************************************************************************)
EntryPoints == {"run_triage_agent", "run_agent"}

\* triage_agent, azure_mcp_server = get_triage_agent()
\* await azure_mcp_server.connect()
TurnConnect ==
    /\ turn.pc \in {"idle", "ended"}
    /\ turn.n < MaxTurns
    /\ \E entry \in EntryPoints :
          \/ \* connect raises: no connection was opened
             /\ turn' = [pc |-> "ended", entry |-> entry, outcome |-> "connect_raised",
                         n |-> turn.n + 1]
             /\ UNCHANGED connections
          \/ /\ turn' = [pc |-> "connected", entry |-> entry, outcome |-> "none",
                         n |-> turn.n + 1]
             /\ connections' = connections + 1
    /\ UNCHANGED <<factoryVars, authVars, storeVars, gateVars, toolVars, filterVars, agentVars>>

\* result = await Runner.run(triage_agent, input=[...], context=azure_ctx)
TurnRun ==
    /\ turn.pc = "connected"
    /\ \/ turn' = [turn EXCEPT !.pc = "ran"]
       \/ \* the run raises or the task is cancelled: the exception leaves
          \* the function at the await
          turn' = [turn EXCEPT !.pc = "ended", !.outcome = "run_raised"]
    /\ UNCHANGED <<connections, factoryVars, authVars, storeVars, gateVars, toolVars,
                   filterVars, agentVars>>

\* await azure_mcp_server.cleanup(); return result
TurnCleanup ==
    /\ turn.pc = "ran"
    /\ connections' = connections - 1
    /\ turn' = [turn EXCEPT !.pc = "ended", !.outcome = "returned"]
    /\ UNCHANGED <<factoryVars, authVars, storeVars, gateVars, toolVars, filterVars, agentVars>>

\* the context the caller built for the turn
InitTurn == InitStore

NextTurn == TurnConnect \/ TurnRun \/ TurnCleanup

SpecTurn == InitTurn /\ [][NextTurn]_vars

(***************************************************************************)
(* GitHubAgent / ADOAgent: initialize, get_response and cleanup called by  *)
(* asyncio tasks on one agent object.  A task runs without interruption    *)
(* from one await to the next; the object holds no lock.                   *)
(***************************************************************************)
\* the servers whose __aenter__ has completed and __aexit__ has not
OpenServers == {i \in 1..Len(servers) : servers[i] = "open"}

\* initialize, lines 23-55: up to the suspension in __aenter__
InitializeBegin(t, method) ==
    IF initialized
    THEN /\ task' = [task EXCEPT ![t] = [pc |-> "done", method |-> method, server |-> 0,
                                         outcome |-> "returned"]]
         /\ UNCHANGED <<agent, mcp_server, initialized, servers>>
    ELSE /\ Len(servers) < MaxServers
         /\ servers' = Append(servers, "created")
         /\ mcp_server' = Len(servers) + 1
         /\ task' = [task EXCEPT ![t] = [pc |-> "entering", method |-> method,
                                         server |-> Len(servers) + 1, outcome |-> "none"]]
         /\ UNCHANGED <<agent, initialized>>

\* a task calls initialize()
Initialize(t) ==
    /\ task[t].pc \in {"idle", "done"}
    /\ InitializeBegin(t, "initialize")
    /\ UNCHANGED <<factoryVars, authVars, storeVars, gateVars, toolVars, filterVars, turnVars>>

\* a task calls get_response(), lines 86-103: up to its first suspension
GetResponse(t) ==
    /\ task[t].pc \in {"idle", "done"}
    /\ IF ~initialized
       THEN InitializeBegin(t, "get_response")
       ELSE /\ task' = [task EXCEPT ![t] =
                          IF agent = <<>>
                          THEN [pc |-> "done", method |-> "get_response", server |-> 0,
                                outcome |-> "raised"]
                          ELSE [pc |-> "running", method |-> "get_response", server |-> 0,
                                outcome |-> "none"]]
            /\ UNCHANGED <<agent, mcp_server, initialized, servers>>
    /\ UNCHANGED <<factoryVars, authVars, storeVars, gateVars, toolVars, filterVars, turnVars>>

\* __aenter__ of the task's server completes; initialize goes on, lines 58-69,
\* and get_response after it, lines 89-103
InitializeResume(t) ==
    /\ task[t].pc = "entering"
    /\ \/ \* __aenter__ raises: the exception leaves initialize at line 55
          /\ servers' = [servers EXCEPT ![task[t].server] = "failed"]
          /\ task' = [task EXCEPT ![t].pc = "done", ![t].outcome = "raised"]
          /\ UNCHANGED <<agent, mcp_server, initialized>>
       \/ /\ servers' = [servers EXCEPT ![task[t].server] = "open"]
          /\ agent' = <<mcp_server>>
          /\ initialized' = TRUE
          /\ task' = [task EXCEPT ![t].pc = IF task[t].method = "get_response"
                                            THEN "running" ELSE "done",
                                  ![t].outcome = IF task[t].method = "get_response"
                                                 THEN "none" ELSE "returned"]
          /\ UNCHANGED mcp_server
    /\ UNCHANGED <<factoryVars, authVars, storeVars, gateVars, toolVars, filterVars, turnVars>>

\* await Runner.run(self.agent, full_input) completes, lines 103-104
GetResponseResume(t) ==
    /\ task[t].pc = "running"
    /\ \E outcome \in {"returned", "raised"} :
          task' = [task EXCEPT ![t].pc = "done", ![t].outcome = outcome]
    /\ UNCHANGED <<agent, mcp_server, initialized, servers>>
    /\ UNCHANGED <<factoryVars, authVars, storeVars, gateVars, toolVars, filterVars, turnVars>>

\* a task calls cleanup(), lines 73-82: up to the suspension in __aexit__, or
\* to the end when no server is held
Cleanup(t) ==
    /\ task[t].pc \in {"idle", "done"}
    /\ IF mcp_server # 0
       THEN /\ task' = [task EXCEPT ![t] = [pc |-> "exiting", method |-> "cleanup",
                                            server |-> mcp_server, outcome |-> "none"]]
            /\ UNCHANGED <<agent, mcp_server, initialized, servers>>
       ELSE /\ agent' = <<>>
            /\ mcp_server' = 0
            /\ initialized' = FALSE
            /\ task' = [task EXCEPT ![t] = [pc |-> "done", method |-> "cleanup",
                                            server |-> 0, outcome |-> "returned"]]
            /\ UNCHANGED servers
    /\ UNCHANGED <<factoryVars, authVars, storeVars, gateVars, toolVars, filterVars, turnVars>>

\* __aexit__ of the server completes, or raises and is swallowed; lines 79-82
CleanupResume(t) ==
    /\ task[t].pc = "exiting"
    /\ servers' = [servers EXCEPT ![task[t].server] = "closed"]
    /\ agent' = <<>>
    /\ mcp_server' = 0
    /\ initialized' = FALSE
    /\ task' = [task EXCEPT ![t].pc = "done", ![t].outcome = "returned"]
    /\ UNCHANGED <<factoryVars, authVars, storeVars, gateVars, toolVars, filterVars, turnVars>>

InitAgent == InitAuth

NextAgent ==
    \E t \in Tasks :
        \/ Initialize(t)
        \/ GetResponse(t)
        \/ InitializeResume(t)
        \/ GetResponseResume(t)
        \/ Cleanup(t)
        \/ CleanupResume(t)

SpecAgent == InitAgent /\ [][NextAgent]_vars

(***************************************************************************)
(* C1: two concurrent first-time get_handler requests for the same         *)
(* (kind, context) never yield two distinct handles: whenever two callers  *)
(* hold a handle returned for the same key and the same context values,    *)
(* it is the same instance.                                                *)
(***************************************************************************)
C1_OneHandlePerParameterSet ==
    \A t, u \in Threads :
        (/\ thr[t].pc = "returned" /\ thr[u].pc = "returned"
         /\ thr[t].key = thr[u].key /\ thr[t].ctx = thr[u].ctx)
        => thr[t].handler = thr[u].handler

(***************************************************************************)
(* C2: two consecutive get_handler calls of one kind with field-for-field  *)
(* identical context return the same instance, and a call that follows one *)
(* with a relevant field changed returns a different instance.             *)
(***************************************************************************)
\* the context fields the helper of a kind is constructed from
RelevantFields(key) == Keys(ConstructorArgs(key, [f \in Fields |-> None]))

Returned(call) == call.outcome \in {"hit", "miss"}

C3_IrrelevantFieldsIgnored ==
    [][(/\ Returned(last) /\ Returned(last') /\ last'.key = last.key
        /\ \A f \in RelevantFields(last.key) : last'.ctx[f] = last.ctx[f])
        => last'.handler = last.handler]_vars

(***************************************************************************)
(* C6: get_token never returns a held token once now >= expiry - 5 min,    *)
(* nor when it holds none: it then acquires a token from the credential    *)
(* provider, stores it with its reported expiry less the skew, and returns *)
(* that token.                                                             *)
(***************************************************************************)
\* the token held at a call was still good at the call's time
HeldGood(held, now) ==
    held # <<>> /\ now < FromTimestamp(issued[held[1]]) - Skew

C6_NoStaleToken ==
    (lastGet.result # <<>> /\ ~HeldGood(lastGet.held, lastGet.now))
    => /\ lastGet.acquired
       /\ lastGet.result # lastGet.held
       /\ lastGet.result = <<Len(issued)>>
       /\ token = lastGet.result
       /\ token_expiry = <<FromTimestamp(issued[token[1]]) - Skew>>

\* a held token had run into the skew window and the call returned a new one
C6_Witness ==
    /\ lastGet.held # <<>>
    /\ lastGet.now >= FromTimestamp(issued[lastGet.held[1]]) - Skew
    /\ lastGet.now < FromTimestamp(issued[lastGet.held[1]])
    /\ lastGet.acquired
    /\ lastGet.result # lastGet.held

(***************************************************************************)
(* C7: a request made while the held token is inside its validity window   *)
(* (less the skew) makes no credential acquisition and returns the held    *)
(* token; a request made at or after that makes one acquisition.           *)
(***************************************************************************)
C7_OneAcquisitionPerWindow ==
    [][(lastGet' # lastGet \/ acquisitions' # acquisitions)
        => IF HeldGood(token, DatetimeNow)
           THEN acquisitions' = acquisitions /\ lastGet'.result = token
           ELSE acquisitions' = acquisitions + 1]_vars

\* one acquisition so far, and a later request was served the held token
C7_Witness ==
    /\ acquisitions = 1
    /\ ~lastGet.acquired
    /\ lastGet.result = token
    /\ token # <<>>
    /\ lastGet.now > FromTimestamp(0)

(***************************************************************************)
(* C4: over any sequence of set_azure_context calls on one AzureCtx, a     *)
(* field ends with the value of the first non-empty write to it; later     *)
(* writes change nothing.                                                  *)
(***************************************************************************)
\* on any context: the first non-empty argument passed for a field is its value
C4_FirstWriteWins ==
    \A f \in SetFields : firstWrite[f] # None => azure_ctx[f] = firstWrite[f]

\* by construction state: a field constructed non-empty keeps that value; a field
\* constructed empty takes the first non-empty argument and keeps it
C4_FirstWriteWinsOnEmptyField ==
    \A f \in SetFields :
        IF Truthy(built[f])
        THEN azure_ctx[f] = built[f]
        ELSE firstWrite[f] # None => azure_ctx[f] = firstWrite[f]

\* a field constructed empty was written, then passed another value
C4_Witness ==
    \E f \in SetFields :
        /\ ~Truthy(built[f])
        /\ firstWrite[f] # None
        /\ laterWrite[f]
        /\ azure_ctx[f] = firstWrite[f]

(***************************************************************************)
(* C5: under set_azure_context, the two guardrail checks and               *)
(* switch_subscription, a field holding a non-empty value never becomes    *)
(* empty or None.                                                          *)
(***************************************************************************)
C5_NonEmptyStaysNonEmpty ==
    [][\A f \in StoreFields : Truthy(azure_ctx[f]) => Truthy(azure_ctx'[f])]_vars

(***************************************************************************)
(* C8: a request whose text contains a generic allow-list phrase passes    *)
(* both guardrail checks with exists = true, the tripwire not triggered    *)
(* and no verification call, whatever the context holds.                   *)
(***************************************************************************)
\* a check that has made no verification call and, once it has returned,
\* has passed
PassedUnverified(check) ==
    /\ check.calls = 0
    /\ check.pc \in {"idle", "done"}
    /\ check.pc = "done" => (check.exists /\ ~check.tripwire)

\* for a phrase of either check's allow-list
C8_GenericPassesBoth ==
    (request # "-" /\ AnyIn(RgSkipPhrases \cup ResSkipPhrases, Lower(RequestText(request))))
    => (PassedUnverified(rgCheck) /\ PassedUnverified(resCheck))

\* per list: each check passes on a phrase of its own allow-list; the
\* phrases of the resource-group list are all on the resource list, so a
\* phrase of the resource-group list passes both
C8_GenericPassesOwnCheck ==
    request # "-" =>
        /\ AnyIn(RgSkipPhrases, Lower(RequestText(request)))
            => (PassedUnverified(rgCheck) /\ PassedUnverified(resCheck))
        /\ AnyIn(ResSkipPhrases, Lower(RequestText(request)))
            => PassedUnverified(resCheck)

\* "List all subscriptions I have access to" on an empty context: both
\* checks have returned on the generic branch
C8_Witness ==
    /\ request = "list_subs"
    /\ \A f \in StoreFields : azure_ctx[f] = None
    /\ rgCheck.pc = "done" /\ rgCheck.path = "generic"
    /\ resCheck.pc = "done" /\ resCheck.path = "generic"

(***************************************************************************)
(* C9: when the text mentions a resource-group keyword, the context holds  *)
(* no resource group and no generic phrase matches, the resource-group     *)
(* check calls the verification agent exactly once.                        *)
(***************************************************************************)
C9_VerifiesOnce ==
    (/\ rgCheck.pc # "idle"
     /\ ~Truthy(rgCheck.held)
     /\ AnyIn(RgKeywords, Lower(RequestText(request)))
     /\ ~AnyIn(RgSkipPhrases, Lower(RequestText(request))))
    => rgCheck.calls = 1

\* "Delete the resource group marketing-rg" with no group held: verified once
C9_Witness ==
    /\ request = "missing_rg"
    /\ ~Truthy(rgCheck.held)
    /\ rgCheck.pc = "done"
    /\ rgCheck.path = "verified"
    /\ rgCheck.calls = 1

(***************************************************************************)
(* C10: with a group_name held in the context, "test the connection for   *)
(* linked service X in the same data factory" passes both checks on the    *)
(* same-scope branch with the held values and no verification call.        *)
(***************************************************************************)
\* a check that returned on the same-scope branch with the held value
PassedSameScope(check) ==
    /\ check.pc = "done"
    /\ check.calls = 0
    /\ check.exists /\ ~check.tripwire
    /\ check.path = "followup"
    /\ check.name = check.held

\* with a held group_name taken as enough for both checks
C10_FollowUpPassesBoth ==
    (/\ request = "followup"
     /\ rgCheck.pc # "idle" /\ resCheck.pc # "idle"
     /\ Truthy(rgCheck.held))
    => (PassedSameScope(rgCheck) /\ PassedSameScope(resCheck))

\* per check: each takes the same-scope branch when the field it
\* reads (resource_group_name, resource_name) is held
C10_FollowUpPassesHeldCheck ==
    request # "-" =>
        /\ (/\ rgCheck.pc # "idle" /\ Truthy(rgCheck.held)
            /\ AnyIn(RgFollowUpPhrases, Lower(RequestText(request)))
            /\ ~AnyIn(RgSkipPhrases, Lower(RequestText(request))))
            => PassedSameScope(rgCheck)
        /\ (/\ resCheck.pc # "idle" /\ Truthy(resCheck.held)
            /\ AnyIn(ResFollowUpPhrases, Lower(RequestText(request)))
            /\ ~AnyIn(ResSkipPhrases, Lower(RequestText(request))))
            => PassedSameScope(resCheck)

\* the follow-up request with SQL-RG and a resource held: both checks
\* returned on the same-scope branch
C10_Witness ==
    /\ request = "followup"
    /\ rgCheck.held = "SQL-RG"
    /\ Truthy(resCheck.held)
    /\ PassedSameScope(rgCheck)
    /\ PassedSameScope(resCheck)

(***************************************************************************)
(* C11: on every path through either guardrail check (generic phrase,     *)
(* same-scope follow-up, no keyword, verification) the tripwire is         *)
(* triggered exactly when the verdict's exists flag is false.              *)
(***************************************************************************)
C11_TrippedIffNotExists ==
    \A check \in {rgCheck, resCheck} :
        check.pc = "done" => (check.tripwire <=> ~check.exists)

\* a verification said the resource does not exist and the check tripped,
\* while the other check passed without verification
C11_Witness ==
    /\ rgCheck.pc = "done" /\ rgCheck.path = "verified"
    /\ ~rgCheck.exists /\ rgCheck.tripwire
    /\ resCheck.pc = "done" /\ resCheck.path = "no_mention"
    /\ resCheck.exists /\ ~resCheck.tripwire

(***************************************************************************)
(* C12: when a verification returns, the context field of the check        *)
(* (resource_group_name / resource_name) becomes the verdict's name if the *)
(* verdict says the resource exists, and otherwise stays as it was; no     *)
(* other field changes.                                                    *)
(***************************************************************************)
\* the context after a verification of `field` returned `check`
VerdictFrame(field, check, before, after) ==
    /\ after[field] = IF check.exists THEN check.name ELSE before[field]
    /\ \A f \in StoreFields \ {field} : after[f] = before[f]

C12_WrittenIffExists ==
    [][/\ (rgCheck.pc = "verifying" /\ rgCheck'.pc = "done")
            => VerdictFrame("resource_group_name", rgCheck', azure_ctx, azure_ctx')
       /\ (resCheck.pc = "verifying" /\ resCheck'.pc = "done")
            => VerdictFrame("resource_name", resCheck', azure_ctx, azure_ctx')]_vars

\* empty context, "Delete the resource group marketing-rg", the verdict says
\* it does not exist: resource_group_name is still unset
C12_Witness ==
    /\ request = "missing_rg"
    /\ \A f \in StoreFields : built[f] = None
    /\ rgCheck.pc = "done" /\ rgCheck.path = "verified" /\ ~rgCheck.exists
    /\ azure_ctx["resource_group_name"] = None

(***************************************************************************)
(* C15: a get_resource_handler call that returns a handle constructs one   *)
(* if and only if its cache key is absent: on a hit it returns the cached  *)
(* handle and constructs nothing; on a miss it constructs exactly one      *)
(* handle, stores it under the key and returns it.                         *)
(***************************************************************************)
\* the cache key of a recorded call
KeyOf(call) == MakeCacheKey(call.key, call.ctx)

C15_ConstructsIffAbsent ==
    [][IF KeyOf(last') \in DOMAIN cache
       THEN /\ last'.outcome = "hit"
            /\ last'.handler = cache[KeyOf(last')]
            /\ constructed' = constructed
            /\ cache' = cache
       ELSE /\ last'.outcome # "hit"
            /\ last'.outcome = "miss" =>
                /\ constructed' = constructed + 1
                /\ last'.handler \notin {cache[k] : k \in DOMAIN cache}
                /\ cache' = cache @@ (KeyOf(last') :> last'.handler)]_vars

\* one helper was constructed and a later call with the same parameters was
\* answered with it
C15_Witness ==
    /\ last.outcome = "hit"
    /\ constructed = 1
    /\ cache[KeyOf(last)] = last.handler

(***************************************************************************)
(* C16: a key present in the handler cache stays present and stays mapped  *)
(* to the same handle, whatever sequence or interleaving of                *)
(* get_resource_handler calls follows.                                     *)
(***************************************************************************)
C16_EntriesNeverReplaced ==
    [][\A k \in DOMAIN cache : k \in DOMAIN cache' /\ cache'[k] = cache[k]]_vars

(***************************************************************************)
(* C17: get_resource_handler with a key outside ResourceKey raises the     *)
(* unknown-key error for every context and every cache content, and        *)
(* returns no handle.                                                      *)
(***************************************************************************)
C17_UnknownKeyFails ==
    (last.outcome # "none" /\ last.key \notin ResourceKey)
    => (last.outcome = "error" /\ last.error = "unknown_key" /\ last.handler = 0)

\* an unknown key was refused while the cache held a handle
C17_Witness ==
    /\ last.key = UnknownKey
    /\ last.error = "unknown_key"
    /\ cache # <<>>

(***************************************************************************)
(* C18: get_resource_handler("batch.pool", ...) raises the missing         *)
(* pool_name error on every call whose context has pool_name absent, None  *)
(* or empty, and returns a handle only when pool_name is supplied.         *)
(***************************************************************************)
C18_PoolNameRequired ==
    (last.outcome # "none" /\ last.key = "batch.pool")
    => /\ ~Truthy(Get(last.ctx, "pool_name", None))
            => (last.outcome = "error" /\ last.error = "missing_pool_name")
       /\ Returned(last) => Truthy(Get(last.ctx, "pool_name", None))

\* a pool helper is cached for a context with a pool_name, and a call with an
\* empty pool_name was refused
C18_Witness ==
    /\ last.key = "batch.pool"
    /\ last.error = "missing_pool_name"
    /\ Get(last.ctx, "pool_name", None) = ""
    /\ \E k \in DOMAIN cache : k[1] = "batch.pool"

(***************************************************************************)
(* C19: a get_resource_handler call that fails (unknown key, missing       *)
(* pool_name, a constructor that raises) leaves the cache as it was, with  *)
(* no entry under the call's key.                                          *)
(***************************************************************************)
C19_FailureLeavesCache ==
    [][last'.outcome = "error" =>
        /\ cache' = cache
        /\ KeyOf(last') \notin DOMAIN cache']_vars

\* a constructor raised after another helper had been cached
C19_Witness ==
    /\ last.outcome = "error"
    /\ last.error = "constructor_raised"
    /\ cache # <<>>
    /\ KeyOf(last) \notin DOMAIN cache

(***************************************************************************)
(* C20: when the credential provider raises, get_token fails after one     *)
(* acquisition attempt, returns no token and leaves the held token and its *)
(* expiry unchanged.                                                       *)
(***************************************************************************)
C20_FailedAcquisitionKeepsState ==
    [][(lastGet'.raised /\ acquisitions' # acquisitions) =>
        /\ acquisitions' = acquisitions + 1
        /\ lastGet'.result = <<>>
        /\ ~lastGet'.acquired
        /\ token' = token
        /\ token_expiry' = token_expiry]_vars

\* a refresh of an expired token failed: the expired token is still held
C20_Witness ==
    /\ lastGet.raised
    /\ token # <<>>
    /\ lastGet.held = token
    /\ NeedsRefresh(DatetimeNow)

(***************************************************************************)
(* C21: get_token is safe under concurrent callers: once every caller has  *)
(* left get_token, the held expiry is the expiry of the held token (the    *)
(* pair comes from one acquisition).                                       *)
(***************************************************************************)
C21_TokenAndExpiryFromOneAcquisition ==
    (/\ \A t \in Threads : callers[t].pc \in {"idle", "returned", "raised"}
     /\ token # <<>>)
    => token_expiry = <<StoredExpiry(issued[token[1]])>>

(***************************************************************************)
(* C22: over any sequence of ensure_auth and set_azure_context calls on    *)
(* one AzureCtx, at most one AzureAuthentication is ever attached to it    *)
(* (one given at construction or the first one made), and every            *)
(* ensure_auth call returns that instance.                                 *)
(***************************************************************************)
C22_OneAuthInstance ==
    /\ authMade <= 1
    /\ ctx_auth \in {0, 1}
    /\ ensured \subseteq {1}
    /\ ensured # {} => ctx_auth = 1

\* set_azure_context has written a field of the context and ensure_auth has
\* returned the instance attached to it
C22_Witness ==
    /\ ensured = {1}
    /\ ctx_auth = 1
    /\ \E f \in SetFields : firstWrite[f] # None /\ ~Truthy(built[f])

(***************************************************************************)
(* C23: every specialist operation obtains its service handle from the     *)
(* handler factory, so two consecutive specialist operations on the same   *)
(* helper class, run under the same subscription, resource group and       *)
(* resource, work on one cached handle and not on a new one per operation. *)
(***************************************************************************)
C23_SpecialistsReuseHandle ==
    [][(/\ lastTool.tool \in SpecialistTools
        /\ lastTool'.tool \in SpecialistTools
        /\ HelperClass(lastTool.tool) = HelperClass(lastTool'.tool)
        /\ lastTool.handler # <<>>
        /\ lastTool'.handler # <<>>
        /\ lastTool'.ctx = lastTool.ctx)
       => (/\ lastTool'.handler = lastTool.handler
           /\ lastTool'.handler[1] = "cached")]_vars

(***************************************************************************)
(* C24: a tool call never ends with an exception reaching its caller: when *)
(* the handler factory or the operation on the handle fails, the tool      *)
(* returns an error text, and otherwise it returns its result text.        *)
(***************************************************************************)
C24_FailuresBecomeText ==
    lastTool.tool # "-" =>
        /\ lastTool.outcome # "raised"
        /\ lastTool.failure # "none" <=> lastTool.outcome = "error_text"

\* a triage tool whose get_resource_handler call failed returned an error text
C24_Witness ==
    /\ lastTool.tool \in TriageTools
    /\ lastTool.failure = "handle"
    /\ last.outcome = "error"
    /\ lastTool.outcome = "error_text"

(***************************************************************************)
(* C25: the cache key holds the kind and exactly the non-null context      *)
(* fields, whatever the representation of the context: two consecutive     *)
(* calls for one kind whose contexts (an AzureCtx, a plain dict, or a dict  *)
(* that also names fields with None) carry the same non-null values get    *)
(* the same cache key and the same cached handle.                          *)
(***************************************************************************)
\* the non-null part of a dict of context values
NonNullOf(context_values) ==
    [f \in Fields |-> IF context_values[f] = None THEN Absent ELSE context_values[f]]

C25_KeyIndependentOfRepresentation ==
    [][(/\ Returned(last) /\ Returned(last') /\ last'.key = last.key
        /\ NonNullOf(last'.ctx) = NonNullOf(last.ctx))
        => /\ MakeCacheKey(last'.key, last'.ctx) = MakeCacheKey(last.key, NonNullOf(last.ctx))
           /\ last'.handler = last.handler]_vars

(***************************************************************************)
(* C26: allow_tools is a pure predicate over a fixed allow-list: it        *)
(* returns true exactly when the tool's name is an allow-listed name or    *)
(* contains the variant's family infix; two calls for one name agree       *)
(* whatever the filter context and whatever was asked before, and the tool *)
(* descriptor is left as it was.                                           *)
(***************************************************************************)
C26_FilterIsPurePredicate ==
    filterCall.variant # "-" =>
        /\ filterCall.result <=>
              \/ filterCall.name \in ToolList(filterCall.variant)
              \/ \E infix \in FamilyInfix(filterCall.variant) :
                    Contains(filterCall.name, infix)
        /\ filterCall.nameAfter = filterCall.name
        /\ (filterPrev.variant = filterCall.variant /\ filterPrev.name = filterCall.name)
              => filterPrev.result = filterCall.result

\* a name outside the allow-list was let through for its infix, twice, under
\* two filter contexts
C26_Witness ==
    /\ filterCall.result
    /\ filterCall.name \notin ToolList(filterCall.variant)
    /\ filterPrev.variant = filterCall.variant
    /\ filterPrev.name = filterCall.name
    /\ filterPrev.ctx # filterCall.ctx

(***************************************************************************)
(* C28: the resource-existence check runs its verification agent, once,    *)
(* exactly when the text matches no generic phrase, and it is not the case *)
(* that a resource_name is held while the text matches a same-scope        *)
(* follow-up phrase, and the text contains a resource-type keyword; in     *)
(* every other case it passes with exists = true and no verification call. *)
(***************************************************************************)
\* the three tiers, read off the request text and the resource_name held
ResMustVerify(input_text, held) ==
    /\ ~AnyIn(ResSkipPhrases, input_text)
    /\ ~(Truthy(held) /\ AnyIn(ResFollowUpPhrases, input_text))
    /\ AnyIn(ResourceKeywords, input_text)

C28_ResourceCheckThreeTiers ==
    (request # "-" /\ resCheck.pc # "idle") =>
        IF ResMustVerify(Lower(RequestText(request)), resCheck.held)
        THEN resCheck.calls = 1
        ELSE /\ resCheck.calls = 0
             /\ resCheck.pc = "done"
             /\ resCheck.exists
             /\ ~resCheck.tripwire

\* a resource is held, the text names a resource type and is no follow-up:
\* the verification agent has run once
C28_Witness ==
    /\ Truthy(resCheck.held)
    /\ resCheck.pc = "done"
    /\ resCheck.path = "verified"
    /\ resCheck.calls = 1
    /\ ResMustVerify(Lower(RequestText(request)), resCheck.held)

(***************************************************************************)
(* C29: run_triage_agent pairs every MCP server connect with a cleanup:    *)
(* however a turn ends, the run having returned, failed or been cancelled, *)
(* no connection opened by a turn is still open once the turn has ended.   *)
(***************************************************************************)
C29_NoConnectionAfterTurn ==
    turn.pc = "ended" => connections = 0

(***************************************************************************)
(* C30: a GitHubAgent / ADOAgent holds at most one open MCP server         *)
(* connection at a time, whatever the interleaving of initialize,          *)
(* get_response and cleanup on it: the only open server is the one         *)
(* self.mcp_server refers to, and _initialized is true only when both      *)
(* agent and mcp_server are set.                                           *)
(***************************************************************************)
C30_OneOpenConnection ==
    /\ Cardinality(OpenServers) <= 1
    /\ \A i \in OpenServers : mcp_server = i
    /\ initialized => (agent # <<>> /\ mcp_server # 0)

====
